---------------------------- MODULE Spec2Model ----------------------------
(***************************************************************************)
(* A model of the keyword index of the meeting assistant                   *)
(* (src/backend/keyword_indexer.py) and of the request handlers that use   *)
(* it (src/backend/main.py).                                               *)
(*                                                                         *)
(* A text is a sequence of one-character strings.  A token is a text.      *)
(* The index is a function from the tokens that are keys of the            *)
(* defaultdict to sets of meeting ids; meeting_notes is a function from    *)
(* the ids that are keys of the dict to texts.                             *)
(*                                                                         *)
(* Spec    : any sequence of whole calls of the four indexer methods.      *)
(* ConcSpec: request handlers running in worker threads, one step per      *)
(*           statement that reads or writes the shared indexer.            *)
(* StartSpec: a process start: startup_event on the table earlier runs     *)
(*           left, then the request handlers.                              *)
(***************************************************************************)
EXTENDS Naturals, Sequences, FiniteSets, TLC

\* ------------------------------------------------------------------ bounds

\* Meeting ids are 1..MaxId.
MaxId == 2

\* The default of get_relevant_notes' limit parameter, which ask_ai passes.
DefaultLimit == 5

Ids == 1..MaxId

\* The worker threads that run the handlers are 1..NumThreads.
NumThreads == 2

\* The handlers take at most MaxRequests requests in a run, one less for
\* every step of startup_event in it.
MaxRequests == 3

Threads == 1..NumThreads

\* ------------------------------------------------------------------- texts

Range(s) == {s[i] : i \in DOMAIN s}

UpperChars == <<"A", "B", "C", "D", "E", "F", "G", "H", "I", "J", "K", "L", "M",
                "N", "O", "P", "Q", "R", "S", "T", "U", "V", "W", "X", "Y", "Z">>

LowerChars == <<"a", "b", "c", "d", "e", "f", "g", "h", "i", "j", "k", "l", "m",
                "n", "o", "p", "q", "r", "s", "t", "u", "v", "w", "x", "y", "z">>

DigitChars == <<"0", "1", "2", "3", "4", "5", "6", "7", "8", "9">>

\* str.lower on one character (ASCII): each upper-case letter to its
\* lower-case letter, any other character to itself.
LowerOf == [i \in DOMAIN UpperChars |-> LowerChars[i]]

UpperIndex == [c \in Range(UpperChars) |->
                 CHOOSE i \in DOMAIN UpperChars : UpperChars[i] = c]

LowerChar(c) == IF c \in DOMAIN UpperIndex THEN LowerOf[UpperIndex[c]] ELSE c

\* str.lower
Lower(text) == [i \in DOMAIN text |-> LowerChar(text[i])]

\* The class \w of the regular expression (ASCII).
WordChars ==
    Range(UpperChars) \cup Range(LowerChars) \cup Range(DigitChars) \cup {"_"}

IsWordChar(c) == c \in WordChars

\* re.findall(r'\b\w+\b', text): the maximal runs of word characters, in
\* order.  cur is the run being read, acc the runs already closed.
RECURSIVE FindAll(_, _, _, _)
FindAll(text, i, cur, acc) ==
    IF i > Len(text)
    THEN IF cur = <<>> THEN acc ELSE Append(acc, cur)
    ELSE IF IsWordChar(text[i])
         THEN FindAll(text, i + 1, Append(cur, text[i]), acc)
         ELSE FindAll(text, i + 1, <<>>,
                      IF cur = <<>> THEN acc ELSE Append(acc, cur))

KeepMutTwo(w) == Len(w) >= 2
\* The length filter of _tokenize keeps w when this holds.
KeepWord(w) == Len(w) > 2

\* _tokenize as the code computes it.
Tokenized(text) ==
    SelectSeq(FindAll(Lower(text), 1, <<>>, <<>>), KeepWord)

\* The notes the model indexes: "Cat dog", "dog, owl", "cat to owl cat", "a to".
NoteCatDog == <<"C", "a", "t", " ", "d", "o", "g">>
NoteDogOwl == <<"d", "o", "g", ",", " ", "o", "w", "l">>
NoteCatCat == <<"c", "a", "t", " ", "t", "o", " ", "o", "w", "l", " ", "c", "a", "t">>
NoteShort == <<"a", " ", "t", "o">>

Notes == {NoteCatDog, NoteDogOwl, NoteCatCat, NoteShort}

\* The queries: "dog", "cat owl", "Cat cat, emu", " a".
QueryDog == <<"d", "o", "g">>
QueryCatOwl == <<"c", "a", "t", " ", "o", "w", "l">>
QueryCatCatEmu == <<"C", "a", "t", " ", "c", "a", "t", ",", " ", "e", "m", "u">>
QueryShort == <<" ", "a">>

Queries == {QueryDog, QueryCatOwl, QueryCatCatEmu, QueryShort}

\* The limits passed to get_relevant_notes.
Limits == {0, 1, DefaultLimit}

\* Every token of a note or a query.
AllTokens == UNION {Range(Tokenized(t)) : t \in Notes \cup Queries}

\* _tokenize of the texts the model uses, computed once.
TokenCache == [t \in Notes \cup Queries \cup AllTokens |-> Tokenized(t)]

\* KeywordIndexer._tokenize
_tokenize(text) ==
    IF text \in DOMAIN TokenCache THEN TokenCache[text] ELSE Tokenized(text)

\* The tokens of a text, as a set.
Tokens(text) == Range(_tokenize(text))

\* The orders in which a Python set of ids may be iterated: the language
\* leaves the order open, so a read draws one.
Orders == {o \in [1..MaxId -> Ids] : \A i, j \in 1..MaxId : i # j => o[i] # o[j]}

\* The members of S in the order ord.
ListOf(S, ord) == SelectSeq(ord, LAMBDA x : x \in S)

\* ------------------------------------------------------------ the indexer

\* KeywordIndexer.__init__.  raised: an exception escaped the last call.
NewIndexer == [index |-> <<>>, meeting_notes |-> <<>>, raised |-> FALSE]

\* d[k] = v
SetItem(d, k, v) == [x \in DOMAIN d \cup {k} |-> IF x = k THEN v ELSE d[x]]

\* del d[k]
DelItem(d, k) == [x \in DOMAIN d \ {k} |-> d[x]]

\* self.index[word] on the defaultdict(set): the posting set, made if absent.
Postings(index, word) == IF word \in DOMAIN index THEN index[word] ELSE {}

\* self.index[word].add(meeting_id)
AddPosting(index, word, meeting_id) ==
    SetItem(index, word, Postings(index, word) \cup {meeting_id})

\* self.index[word].discard(meeting_id)
DiscardPosting(index, word, meeting_id) ==
    SetItem(index, word, Postings(index, word) \ {meeting_id})

\* for word in words: self.index[word].add(meeting_id)
RECURSIVE AddAll(_, _, _)
AddAll(index, words, meeting_id) ==
    IF words = <<>> THEN index
    ELSE AddAll(AddPosting(index, Head(words), meeting_id), Tail(words), meeting_id)

\* for word in words: self.index[word].discard(meeting_id)
RECURSIVE DiscardAll(_, _, _)
DiscardAll(index, words, meeting_id) ==
    IF words = <<>> THEN index
    ELSE DiscardAll(DiscardPosting(index, Head(words), meeting_id),
                    Tail(words), meeting_id)

\* A loop over the words that stops after the first.
FirstOnly(words) == IF words = <<>> THEN <<>> ELSE <<Head(words)>>

\* An add that first un-posts the text stored for the id.
IndexMutReplace(self, meeting_id, notes) ==
    LET cleaned == IF meeting_id \in DOMAIN self.meeting_notes
                   THEN DiscardAll(self.index,
                            _tokenize(self.meeting_notes[meeting_id]), meeting_id)
                   ELSE self.index
    IN  [index |-> AddAll(cleaned, _tokenize(notes), meeting_id),
         meeting_notes |-> SetItem(self.meeting_notes, meeting_id, notes),
         raised |-> FALSE]
IndexMutFirstWord(self, meeting_id, notes) ==
    [index |-> AddAll(self.index, FirstOnly(_tokenize(notes)), meeting_id),
     meeting_notes |-> SetItem(self.meeting_notes, meeting_id, notes),
     raised |-> FALSE]
index_meeting(self, meeting_id, notes) ==
    [index |-> AddAll(self.index, _tokenize(notes), meeting_id),
     meeting_notes |-> SetItem(self.meeting_notes, meeting_id, notes),
     raised |-> FALSE]

\* The body of remove_meeting under its guard.  self.meeting_notes[meeting_id]
\* and del self.meeting_notes[meeting_id] raise KeyError for an absent key.
RemoveBody(self, meeting_id) ==
    IF meeting_id \notin DOMAIN self.meeting_notes
    THEN [self EXCEPT !.raised = TRUE]
    ELSE [index |-> DiscardAll(self.index,
                       _tokenize(self.meeting_notes[meeting_id]), meeting_id),
          meeting_notes |-> DelItem(self.meeting_notes, meeting_id),
          raised |-> FALSE]

RemoveMutNoGuard(self, meeting_id) == RemoveBody(self, meeting_id)
RemoveMutFirstWord(self, meeting_id) ==
    IF meeting_id \in DOMAIN self.meeting_notes
    THEN [index |-> DiscardAll(self.index,
                       FirstOnly(_tokenize(self.meeting_notes[meeting_id])),
                       meeting_id),
          meeting_notes |-> DelItem(self.meeting_notes, meeting_id),
          raised |-> FALSE]
    ELSE [self EXCEPT !.raised = FALSE]
remove_meeting(self, meeting_id) ==
    IF meeting_id \in DOMAIN self.meeting_notes
    THEN RemoveBody(self, meeting_id)
    ELSE [self EXCEPT !.raised = FALSE]

\* Reading self.index[word] on the defaultdict(set) makes word a key, with an
\* empty posting set, when it is none.
Touch(index, word) == SetItem(index, word, Postings(index, word))

\* A read that takes self.index[keyword] without testing for the key.
RECURSIVE ReadMutTouch(_, _)
ReadMutTouch(index, keywords) ==
    IF keywords = <<>> THEN index
    ELSE ReadMutTouch(Touch(index, Head(keywords)), Tail(keywords))

\* The index after the loop over the keywords of search_keywords or
\* get_relevant_notes: if keyword in self.index, then self.index[keyword].
RECURSIVE AfterRead(_, _)
AfterRead(index, keywords) ==
    IF keywords = <<>> THEN index
    ELSE AfterRead(IF Head(keywords) \in DOMAIN index
                   THEN Touch(index, Head(keywords)) ELSE index,
                   Tail(keywords))

\* meeting_ids.update(self.index[keyword]) for every keyword that is a key.
RECURSIVE UnionOf(_, _, _)
UnionOf(index, keywords, meeting_ids) ==
    IF keywords = <<>> THEN meeting_ids
    ELSE UnionOf(index, Tail(keywords),
                 IF Head(keywords) \in DOMAIN index
                 THEN meeting_ids \cup index[Head(keywords)]
                 ELSE meeting_ids)

SearchMutIntersect(self, query, ord) ==
    LET keywords == _tokenize(query)
    IN  IF keywords = <<>> THEN <<>>
        ELSE ListOf({m \in Ids : \A i \in DOMAIN keywords :
                        m \in Postings(self.index, keywords[i])}, ord)
SearchMutEmptyAll(self, query, ord) ==
    LET keywords == _tokenize(query)
    IN  IF keywords = <<>> THEN ListOf(DOMAIN self.meeting_notes, ord)
        ELSE ListOf(UnionOf(self.index, keywords, {}), ord)
\* The list search_keywords returns; ord is the order list(meeting_ids) takes.
search_keywords(self, query, ord) ==
    LET keywords == _tokenize(query)
    IN  IF keywords = <<>> THEN <<>>
        ELSE ListOf(UnionOf(self.index, keywords, {}), ord)

\* meeting_scores[meeting_id] += 1 on the defaultdict(int), whose items keep
\* the order in which their keys were first set.
Incr(scores, meeting_id) ==
    IF \E i \in DOMAIN scores : scores[i].meeting_id = meeting_id
    THEN [i \in DOMAIN scores |->
            IF scores[i].meeting_id = meeting_id
            THEN [scores[i] EXCEPT !.score = @ + 1] ELSE scores[i]]
    ELSE Append(scores, [meeting_id |-> meeting_id, score |-> 1])

\* for meeting_id in self.index[keyword]: meeting_scores[meeting_id] += 1
RECURSIVE IncrAll(_, _)
IncrAll(scores, ids) ==
    IF ids = <<>> THEN scores
    ELSE IncrAll(Incr(scores, Head(ids)), Tail(ids))

\* The loop over the keywords of get_relevant_notes.
RECURSIVE ScoreAll(_, _, _, _)
ScoreAll(index, keywords, scores, ord) ==
    IF keywords = <<>> THEN scores
    ELSE ScoreAll(index, Tail(keywords),
                  IF Head(keywords) \in DOMAIN index
                  THEN IncrAll(scores, ListOf(index[Head(keywords)], ord))
                  ELSE scores,
                  ord)

\* One item put into a list sorted by score, highest first, behind the items
\* of the same score: sorted(..., reverse=True) is stable.
RECURSIVE InsertDesc(_, _)
InsertDesc(sorted, item) ==
    IF sorted = <<>> THEN <<item>>
    ELSE IF Head(sorted).score >= item.score
         THEN <<Head(sorted)>> \o InsertDesc(Tail(sorted), item)
         ELSE <<item>> \o sorted

RECURSIVE InsertAsc(_, _)
InsertAsc(sorted, item) ==
    IF sorted = <<>> THEN <<item>>
    ELSE IF Head(sorted).score <= item.score
         THEN <<Head(sorted)>> \o InsertAsc(Tail(sorted), item)
         ELSE <<item>> \o sorted

RECURSIVE SortedMutAscending(_)
SortedMutAscending(items) ==
    IF items = <<>> THEN <<>>
    ELSE InsertAsc(SortedMutAscending(SubSeq(items, 1, Len(items) - 1)),
                   items[Len(items)])
\* sorted(meeting_scores.items(), key=lambda x: x[1], reverse=True)
RECURSIVE SortedByScore(_)
SortedByScore(items) ==
    IF items = <<>> THEN <<>>
    ELSE InsertDesc(SortedByScore(SubSeq(items, 1, Len(items) - 1)),
                    items[Len(items)])

\* The slice left out.
TruncMutAll(items, limit) == items
\* items[:limit] for limit >= 0
Truncate(items, limit) ==
    SubSeq(items, 1, IF limit < Len(items) THEN limit ELSE Len(items))

\* self.meeting_notes.get(mid, "")
GetNotes(meeting_notes, mid) ==
    IF mid \in DOMAIN meeting_notes THEN meeting_notes[mid] ELSE <<>>

\* A score that counts how often the stored text has each keyword.
GetRelevantMutFrequency(self, query, limit, ord) ==
    LET keywords == _tokenize(query)
    IN  IF keywords = <<>> THEN <<>>
        ELSE LET sorted_meetings ==
                   Truncate(SortedByScore(
                       ScoreAll(self.index, keywords, <<>>, ord)), limit)
             IN  [i \in DOMAIN sorted_meetings |->
                    LET words == _tokenize(GetNotes(self.meeting_notes,
                                               sorted_meetings[i].meeting_id))
                    IN  [meeting_id |-> sorted_meetings[i].meeting_id,
                         score |-> Cardinality({p \in (DOMAIN words) \X (DOMAIN keywords) :
                                                  words[p[1]] = keywords[p[2]]}),
                         notes |-> GetNotes(self.meeting_notes,
                                            sorted_meetings[i].meeting_id)]]
\* The list get_relevant_notes returns; ord is the order in which the posting
\* sets are iterated.
get_relevant_notes(self, query, limit, ord) ==
    LET keywords == _tokenize(query)
    IN  IF keywords = <<>> THEN <<>>
        ELSE LET sorted_meetings ==
                   Truncate(SortedByScore(
                       ScoreAll(self.index, keywords, <<>>, ord)), limit)
             IN  [i \in DOMAIN sorted_meetings |->
                    [meeting_id |-> sorted_meetings[i].meeting_id,
                     score |-> sorted_meetings[i].score,
                     notes |-> GetNotes(self.meeting_notes,
                                        sorted_meetings[i].meeting_id)]]

\* ------------------------------------------------------------ the program

VARIABLES
    index,          \* keyword_indexer.index
    meeting_notes,  \* keyword_indexer.meeting_notes
    raised,         \* an exception escaped the last indexer call
    result,         \* what the last read returned, NoResult after a write
    liveAdd,        \* history: index_meeting was called for an id in meeting_notes
    db,             \* the meetings table: id -> raw_notes
    th,             \* the worker threads: what each is running, and where
    served,         \* the number of requests taken so far
    boot            \* startup_event: where it is, the meetings it still has
                    \* to index and the ids it has indexed

vars == <<index, meeting_notes, raised, result, liveAdd, db, th, served, boot>>

\* What no step of a request handler changes, and what no whole call of
\* the sequence of calls changes.
callVars == <<raised, result, liveAdd, boot>>
handlerVars == <<db, th, served, boot>>

\* The indexer as the methods see it.
Self == [index |-> index, meeting_notes |-> meeting_notes, raised |-> raised]

NoResult == [op |-> "none"]

\* A worker thread that runs no handler.
Idle == [op |-> "idle", pc |-> "idle"]

\* startup_event has returned and the server takes requests; calls are the
\* ids it has passed to index_meeting, in order, and steps the steps of
\* startup_event that the run has taken.
Serving(calls, steps) ==
    [pc |-> "serving", meetings |-> <<>>, calls |-> calls, steps |-> steps]

\* The module's keyword_indexer = KeywordIndexer()
Init ==
    /\ index = NewIndexer.index
    /\ meeting_notes = NewIndexer.meeting_notes
    /\ raised = NewIndexer.raised
    /\ result = NoResult
    /\ liveAdd = FALSE
    /\ db = <<>>
    /\ th = [t \in Threads |-> Idle]
    /\ served = 0
    /\ boot = Serving(<<>>, 0)

\* The indexer after a call that left it as new.
Becomes(new) ==
    /\ index' = new.index
    /\ meeting_notes' = new.meeting_notes
    /\ raised' = new.raised

\* keyword_indexer.index_meeting(meeting_id, notes).  Calls follow one another:
\* each of the four starts when the caller holds no result of an earlier read.
IndexMeeting(meeting_id, notes) ==
    /\ result = NoResult
    /\ Becomes(index_meeting(Self, meeting_id, notes))
    /\ liveAdd' = (liveAdd \/ meeting_id \in DOMAIN meeting_notes)
    /\ result' = NoResult
    /\ UNCHANGED handlerVars

\* keyword_indexer.remove_meeting(meeting_id)
RemoveMeeting(meeting_id) ==
    /\ result = NoResult
    /\ Becomes(remove_meeting(Self, meeting_id))
    /\ result' = NoResult
    /\ UNCHANGED <<liveAdd, db, th, served, boot>>

\* keyword_indexer.search_keywords(query)
SearchKeywords(query, ord) ==
    /\ result = NoResult
    /\ result' = [op |-> "search", query |-> query,
                  out |-> search_keywords(Self, query, ord)]
    /\ index' = AfterRead(index, _tokenize(query))
    /\ raised' = FALSE
    /\ UNCHANGED <<meeting_notes, liveAdd, db, th, served, boot>>

\* keyword_indexer.get_relevant_notes(query, limit)
GetRelevantNotes(query, limit, ord) ==
    /\ result = NoResult
    /\ result' = [op |-> "ranked", query |-> query, limit |-> limit,
                  out |-> get_relevant_notes(Self, query, limit, ord)]
    /\ index' = AfterRead(index, _tokenize(query))
    /\ raised' = FALSE
    /\ UNCHANGED <<meeting_notes, liveAdd, db, th, served, boot>>

\* The caller of a read is done with what it returned.
Return ==
    /\ result # NoResult
    /\ result' = NoResult
    /\ UNCHANGED <<index, meeting_notes, raised, liveAdd, db, th, served, boot>>

Next ==
    \/ \E meeting_id \in Ids, notes \in Notes : IndexMeeting(meeting_id, notes)
    \/ \E meeting_id \in Ids : RemoveMeeting(meeting_id)
    \/ \E query \in Queries, ord \in Orders : SearchKeywords(query, ord)
    \/ \E query \in Queries, limit \in Limits, ord \in Orders :
          GetRelevantNotes(query, limit, ord)
    \/ Return

Spec == Init /\ [][Next]_vars

\* ----------------------------------------------------------- the handlers
\* The handlers of main.py are plain def functions, which the server runs in
\* worker threads.  A thread takes one step per statement that reads or writes
\* the table or the indexer; the steps of different threads interleave.

\* The notes and questions the handlers are given.
HandlerNotes == {NoteCatDog, NoteDogOwl}
HandlerQueries == {QueryDog, QueryCatOwl, QueryShort}

\* MeetingUpdate.raw_notes left out of the request (no text: a text is made
\* of one-character strings).
Unset == <<"unset">>

\* The id the table gives a new row: one more than the highest id in it.
NextId == IF DOMAIN db = {} THEN 1
          ELSE (CHOOSE m \in DOMAIN db : \A n \in DOMAIN db : n <= m) + 1

\* An idle worker takes the next request: the lowest idle one, as they are
\* interchangeable.  The server takes requests when startup has completed.
Free(t) ==
    /\ boot.pc = "serving"
    /\ th[t] = Idle
    /\ \A s \in Threads : s < t => th[s] # Idle
    /\ served + boot.steps < MaxRequests

Writer(op, pc, id, notes) ==
    [op |-> op, pc |-> pc, id |-> id, notes |-> notes, words |-> <<>>,
     held |-> {}, base |-> FALSE, status |-> ""]

Reader(op, pc, query) ==
    [op |-> op, pc |-> pc, query |-> query, keywords |-> _tokenize(query),
     size |-> 0, seen |-> {}, scores |-> <<>>, sorted |-> <<>>, out |-> <<>>,
     looked |-> 0, meetings |-> <<>>, answered |-> FALSE,
     missed |-> {}, sawPartial |-> FALSE, status |-> ""]

\* The handler of thread t ends with an HTTP status.
Done(t, status) == [th[t] EXCEPT !.pc = "done", !.status = status]

IsWriter(t) == th[t].op \in {"create", "update", "delete"}
IsReader(t) == th[t].op = "ask"

\* create_meeting: db.add, db.commit.
CreateMeeting(t, notes) ==
    /\ Free(t)
    /\ served' = served + 1
    /\ NextId \in Ids
    /\ db' = SetItem(db, NextId, notes)
    /\ th' = [th EXCEPT ![t] = Writer("create", "c_refresh", NextId, notes)]
    /\ UNCHANGED <<index, meeting_notes, callVars>>

\* create_meeting: db.refresh(db_meeting), which fails when the row is gone.
CreateRefresh(t) ==
    /\ th[t].op = "create" /\ th[t].pc = "c_refresh"
    /\ th' = [th EXCEPT ![t] =
                IF th[t].id \in DOMAIN db
                THEN [@ EXCEPT !.pc = "ix_store", !.notes = db[th[t].id]]
                ELSE Done(t, "500")]
    /\ UNCHANGED <<index, meeting_notes, db, callVars, served>>

\* The tokens meeting_id is posted for are those of its stored text.
InStep(meeting_id) ==
    {w \in DOMAIN index : meeting_id \in index[w]}
        = Tokens(GetNotes(meeting_notes, meeting_id))

\* History kept with an update: it starts when no handler runs and the
\* meeting's postings are in step with its text, or beside updates of the
\* same meeting that started so.
StartsClean(t, meeting_id) ==
    IF \A u \in Threads \ {t} : th[u] = Idle
    THEN meeting_id \in DOMAIN meeting_notes /\ InStep(meeting_id)
    ELSE \A u \in Threads \ {t} :
            th[u] # Idle =>
                th[u].op = "update" /\ th[u].id = meeting_id /\ th[u].base

\* update_meeting: the query for the meeting, 404 when there is none.
UpdateMeeting(t, meeting_id, notes) ==
    /\ Free(t)
    /\ served' = served + 1
    /\ th' = [th EXCEPT ![t] =
                IF meeting_id \in DOMAIN db
                THEN [Writer("update", "u_commit", meeting_id, notes)
                        EXCEPT !.base = StartsClean(t, meeting_id)]
                ELSE [Writer("update", "done", meeting_id, notes)
                        EXCEPT !.status = "404"]]
    /\ UNCHANGED <<index, meeting_notes, db, callVars>>

\* update_meeting: setattr and db.commit; the UPDATE of a deleted row fails.
UpdateCommit(t) ==
    /\ th[t].op = "update" /\ th[t].pc = "u_commit"
    /\ IF th[t].notes = Unset
       THEN /\ th' = [th EXCEPT ![t].pc = "u_refresh"]
            /\ UNCHANGED db
       ELSE IF th[t].id \in DOMAIN db
            THEN /\ db' = SetItem(db, th[t].id, th[t].notes)
                 /\ th' = [th EXCEPT ![t].pc = "u_refresh"]
            ELSE /\ th' = [th EXCEPT ![t] = Done(t, "500")]
                 /\ UNCHANGED db
    /\ UNCHANGED <<index, meeting_notes, callVars, served>>

\* The tokens of the text stored for id that id is posted for and that the
\* new text has too: a re-index should keep id posted for them throughout.
Held(meeting_id, notes) ==
    {w \in Tokens(GetNotes(meeting_notes, meeting_id)) :
        meeting_id \in Postings(index, w)} \cap Tokens(notes)

\* update_meeting: db.refresh(db_meeting); next is remove_meeting(meeting_id).
UpdateRefresh(t) ==
    /\ th[t].op = "update" /\ th[t].pc = "u_refresh"
    /\ th' = [th EXCEPT ![t] =
                IF th[t].id \in DOMAIN db
                THEN [@ EXCEPT !.pc = "rm_check", !.notes = db[th[t].id],
                               !.held = Held(th[t].id, db[th[t].id])]
                ELSE Done(t, "500")]
    /\ UNCHANGED <<index, meeting_notes, db, callVars, served>>

\* delete_meeting without its test of the query's result.
DeleteMutNoCheck(t, meeting_id) ==
    /\ Free(t)
    /\ served' = served + 1
    /\ th' = [th EXCEPT ![t] = Writer("delete", "rm_check", meeting_id, Unset)]
    /\ UNCHANGED <<index, meeting_notes, db, callVars>>

\* delete_meeting: the query for the meeting, 404 when there is none; next is
\* remove_meeting(meeting_id).
DeleteMeeting(t, meeting_id) ==
    /\ Free(t)
    /\ served' = served + 1
    /\ th' = [th EXCEPT ![t] =
                IF meeting_id \in DOMAIN db
                THEN Writer("delete", "rm_check", meeting_id, Unset)
                ELSE [Writer("delete", "done", meeting_id, Unset)
                        EXCEPT !.status = "404"]]
    /\ UNCHANGED <<index, meeting_notes, db, callVars>>

\* Where the handler goes on when remove_meeting has returned.
AfterRemove(t) ==
    IF th[t].op = "update"
    THEN [th[t] EXCEPT !.pc = "ix_store", !.words = <<>>]
    ELSE [th[t] EXCEPT !.pc = "d_commit", !.words = <<>>]

\* remove_meeting: if meeting_id in self.meeting_notes
RemoveCheck(t) ==
    /\ IsWriter(t) /\ th[t].pc = "rm_check"
    /\ th' = [th EXCEPT ![t] =
                IF th[t].id \in DOMAIN meeting_notes
                THEN [@ EXCEPT !.pc = "rm_read"] ELSE AfterRemove(t)]
    /\ UNCHANGED <<index, meeting_notes, db, callVars, served>>

\* remove_meeting: notes = self.meeting_notes[meeting_id]; words = ...
RemoveRead(t) ==
    /\ IsWriter(t) /\ th[t].pc = "rm_read"
    /\ th' = [th EXCEPT ![t] =
                IF th[t].id \in DOMAIN meeting_notes
                THEN [@ EXCEPT !.pc = "rm_discard",
                               !.words = _tokenize(meeting_notes[th[t].id])]
                ELSE Done(t, "500")]
    /\ UNCHANGED <<index, meeting_notes, db, callVars, served>>

\* remove_meeting: one turn of the loop, self.index[word].discard(meeting_id)
RemoveDiscard(t) ==
    /\ IsWriter(t) /\ th[t].pc = "rm_discard"
    /\ IF th[t].words = <<>>
       THEN /\ th' = [th EXCEPT ![t].pc = "rm_del"]
            /\ UNCHANGED index
       ELSE /\ index' = DiscardPosting(index, Head(th[t].words), th[t].id)
            /\ th' = [th EXCEPT ![t].words = Tail(@)]
    /\ UNCHANGED <<meeting_notes, db, callVars, served>>

\* remove_meeting: del self.meeting_notes[meeting_id]
RemoveDel(t) ==
    /\ IsWriter(t) /\ th[t].pc = "rm_del"
    /\ IF th[t].id \in DOMAIN meeting_notes
       THEN /\ meeting_notes' = DelItem(meeting_notes, th[t].id)
            /\ th' = [th EXCEPT ![t] = AfterRemove(t)]
       ELSE /\ th' = [th EXCEPT ![t] = Done(t, "500")]
            /\ UNCHANGED meeting_notes
    /\ UNCHANGED <<index, db, callVars, served>>

\* index_meeting: self.meeting_notes[meeting_id] = notes; words = ...
IndexStore(t) ==
    /\ IsWriter(t) /\ th[t].pc = "ix_store"
    /\ meeting_notes' = SetItem(meeting_notes, th[t].id, th[t].notes)
    /\ th' = [th EXCEPT ![t].pc = "ix_add", ![t].words = _tokenize(th[t].notes)]
    /\ UNCHANGED <<index, db, callVars, served>>

\* index_meeting: one turn of the loop, self.index[word].add(meeting_id); the
\* handler returns when the loop ends.
IndexAdd(t) ==
    /\ IsWriter(t) /\ th[t].pc = "ix_add"
    /\ IF th[t].words = <<>>
       THEN /\ th' = [th EXCEPT ![t] = Done(t, "200")]
            /\ UNCHANGED index
       ELSE /\ index' = AddPosting(index, Head(th[t].words), th[t].id)
            /\ th' = [th EXCEPT ![t].words = Tail(@)]
    /\ UNCHANGED <<meeting_notes, db, callVars, served>>

\* delete_meeting: db.delete(db_meeting); db.commit()
DeleteCommit(t) ==
    /\ th[t].op = "delete" /\ th[t].pc = "d_commit"
    /\ db' = DelItem(db, th[t].id)
    /\ th' = [th EXCEPT ![t] = Done(t, "200")]
    /\ UNCHANGED <<index, meeting_notes, callVars, served>>

\* History kept with a read.  Thread u is re-indexing m and word is a token
\* m was posted for that its new text has too.
InReindex(m, word) ==
    \E u \in Threads :
        /\ th[u].op = "update" /\ th[u].id = m
        /\ th[u].pc \in {"rm_check", "rm_read", "rm_discard", "rm_del",
                         "ix_store", "ix_add"}
        /\ word \in th[u].held

\* Thread u is inside index_meeting or remove_meeting of m, whose stored text
\* has the token word.
MidMutation(m, word) ==
    \E u \in Threads :
        /\ IsWriter(u) /\ th[u].id = m
        /\ th[u].pc \in {"ix_add", "rm_discard", "rm_del"}
        /\ m \in DOMAIN meeting_notes
        /\ word \in Tokens(meeting_notes[m])

\* The reader t has read the posting set of word and got the ids in got.
Observed(t, word, got) ==
    [th[t] EXCEPT
        !.missed = @ \cup {m \in Ids : InReindex(m, word) /\ m \notin got},
        !.sawPartial = @ \/ \E m \in Ids : MidMutation(m, word) /\ m \notin got]

\* ask_ai: get_relevant_notes(request.question, limit=5) tokenizes; with no
\* keyword it returns [] and ask_ai answers that it found nothing.
AskAi(t, query) ==
    /\ Free(t)
    /\ served' = served + 1
    /\ th' = [th EXCEPT ![t] =
                IF _tokenize(query) = <<>>
                THEN [Reader("ask", "done", query) EXCEPT !.status = "200"]
                ELSE Reader("ask", "a_kw", query)]
    /\ UNCHANGED <<index, meeting_notes, db, callVars>>

\* get_relevant_notes: the next keyword: if keyword in self.index, the loop
\* over self.index[keyword] starts; a set iterator remembers the set's size.
\* After the last keyword, sorted(...)[:limit].
AskKeyword(t) ==
    /\ th[t].op = "ask" /\ th[t].pc = "a_kw"
    /\ th' = [th EXCEPT ![t] =
                IF th[t].keywords = <<>>
                THEN [@ EXCEPT !.pc = "a_notes",
                               !.sorted = Truncate(SortedByScore(th[t].scores),
                                                   DefaultLimit)]
                ELSE IF Head(th[t].keywords) \in DOMAIN index
                     THEN [@ EXCEPT !.pc = "a_iter", !.seen = {},
                              !.size = Cardinality(index[Head(th[t].keywords)])]
                     ELSE [Observed(t, Head(th[t].keywords), {})
                             EXCEPT !.keywords = Tail(@)]]
    /\ UNCHANGED <<index, meeting_notes, db, callVars, served>>

\* get_relevant_notes: one turn of for meeting_id in self.index[keyword].  The
\* iterator raises RuntimeError when the set has changed size, which ask_ai
\* turns into a 500; it hands out an id not handed out yet, in no set order.
AskIterate(t) ==
    /\ th[t].op = "ask" /\ th[t].pc = "a_iter"
    /\ LET keyword == Head(th[t].keywords)
           rest == index[keyword] \ th[t].seen
       IN  IF Cardinality(index[keyword]) # th[t].size
           THEN th' = [th EXCEPT ![t] = Done(t, "500")]
           ELSE IF rest = {}
                THEN th' = [th EXCEPT ![t] =
                              [Observed(t, keyword, th[t].seen)
                                 EXCEPT !.pc = "a_kw", !.keywords = Tail(@)]]
                ELSE \E m \in rest :
                        th' = [th EXCEPT ![t].seen = @ \cup {m},
                                         ![t].scores = Incr(@, m)]
    /\ UNCHANGED <<index, meeting_notes, db, callVars, served>>

\* ask_ai without its test of relevant_notes.
AskNotesMutAgent(t) ==
    /\ th[t].op = "ask" /\ th[t].pc = "a_notes"
    /\ th' = [th EXCEPT ![t] =
                IF Len(th[t].out) = Len(th[t].sorted)
                THEN [@ EXCEPT !.pc = "a_db"]
                ELSE LET item == th[t].sorted[Len(th[t].out) + 1]
                     IN  [@ EXCEPT !.out = Append(@,
                              [meeting_id |-> item.meeting_id,
                               score |-> item.score,
                               notes |-> GetNotes(meeting_notes, item.meeting_id)])]]
    /\ UNCHANGED <<index, meeting_notes, db, callVars, served>>

\* get_relevant_notes: one item of the list it returns, with
\* self.meeting_notes.get(mid, ""); then ask_ai: if not relevant_notes.
AskNotes(t) ==
    /\ th[t].op = "ask" /\ th[t].pc = "a_notes"
    /\ th' = [th EXCEPT ![t] =
                IF Len(th[t].out) = Len(th[t].sorted)
                THEN IF th[t].out = <<>> THEN Done(t, "200")
                     ELSE [@ EXCEPT !.pc = "a_db"]
                ELSE LET item == th[t].sorted[Len(th[t].out) + 1]
                     IN  [@ EXCEPT !.out = Append(@,
                              [meeting_id |-> item.meeting_id,
                               score |-> item.score,
                               notes |-> GetNotes(meeting_notes, item.meeting_id)])]]
    /\ UNCHANGED <<index, meeting_notes, db, callVars, served>>

\* ask_ai without its test of the meeting it looked up.
AskLookupMutKeep(t) ==
    /\ th[t].op = "ask" /\ th[t].pc = "a_db"
    /\ th' = [th EXCEPT ![t] =
                IF th[t].looked = Len(th[t].out)
                THEN [Done(t, "200") EXCEPT !.answered = TRUE]
                ELSE LET mid == th[t].out[th[t].looked + 1].meeting_id
                     IN  [@ EXCEPT !.looked = @ + 1,
                                   !.meetings = Append(@, mid)]]
    /\ UNCHANGED <<index, meeting_notes, db, callVars, served>>

\* ask_ai: the query for one relevant note's meeting, kept if there is one;
\* after the last, meeting_agent.answer_question and the response.
AskLookup(t) ==
    /\ th[t].op = "ask" /\ th[t].pc = "a_db"
    /\ th' = [th EXCEPT ![t] =
                IF th[t].looked = Len(th[t].out)
                THEN [Done(t, "200") EXCEPT !.answered = TRUE]
                ELSE LET mid == th[t].out[th[t].looked + 1].meeting_id
                     IN  [@ EXCEPT !.looked = @ + 1,
                                   !.meetings = IF mid \in DOMAIN db
                                                THEN Append(@, mid) ELSE @]]
    /\ UNCHANGED <<index, meeting_notes, db, callVars, served>>

\* The response is sent and the worker is idle again.
Respond(t) ==
    /\ th[t].pc = "done"
    /\ th' = [th EXCEPT ![t] = Idle]
    /\ UNCHANGED <<index, meeting_notes, db, callVars, served>>

HandlerNext ==
    \E t \in Threads :
        \/ \E notes \in HandlerNotes : CreateMeeting(t, notes)
        \/ CreateRefresh(t)
        \/ \E meeting_id \in Ids, notes \in HandlerNotes \cup {Unset} :
              UpdateMeeting(t, meeting_id, notes)
        \/ UpdateCommit(t)
        \/ UpdateRefresh(t)
        \/ \E meeting_id \in Ids : DeleteMeeting(t, meeting_id)
        \/ RemoveCheck(t)
        \/ RemoveRead(t)
        \/ RemoveDiscard(t)
        \/ RemoveDel(t)
        \/ IndexStore(t)
        \/ IndexAdd(t)
        \/ DeleteCommit(t)
        \/ \E query \in HandlerQueries : AskAi(t, query)
        \/ AskKeyword(t)
        \/ AskIterate(t)
        \/ AskNotes(t)
        \/ AskLookup(t)
        \/ Respond(t)

ConcSpec == Init /\ [][HandlerNext]_vars

\* ------------------------------------------------------------- the startup
\* The process starts with meetings in the table, left by earlier runs, and a
\* new indexer.  startup_event runs in the server's startup phase.

\* The tables a process may start with.
Tables == UNION {[S -> HandlerNotes] : S \in SUBSET Ids}

StartInit ==
    /\ index = NewIndexer.index
    /\ meeting_notes = NewIndexer.meeting_notes
    /\ raised = NewIndexer.raised
    /\ result = NoResult
    /\ liveAdd = FALSE
    /\ db \in Tables
    /\ th = [t \in Threads |-> Idle]
    /\ served = 0
    /\ boot = [pc |-> "query", meetings |-> <<>>, calls |-> <<>>, steps |-> 0]

\* startup_event: meetings = db.query(Meeting).all(), in the order the
\* database hands the rows out.
StartupQuery(ord) ==
    /\ boot.pc = "query"
    /\ boot' = [boot EXCEPT !.pc = "index", !.steps = 1,
                            !.meetings = ListOf(DOMAIN db, ord)]
    /\ UNCHANGED <<index, meeting_notes, raised, result, liveAdd, db, th, served>>

StartupMutSkip ==
    /\ boot.pc = "index"
    /\ boot.meetings # <<>>
    /\ boot' = [boot EXCEPT !.meetings = Tail(@), !.steps = @ + 1]
    /\ UNCHANGED <<index, meeting_notes, raised, result, liveAdd, db, th, served>>
\* startup_event: one turn of the loop,
\* keyword_indexer.index_meeting(meeting.id, meeting.raw_notes)
StartupIndex ==
    /\ boot.pc = "index"
    /\ boot.meetings # <<>>
    /\ LET meeting_id == Head(boot.meetings)
       IN  /\ Becomes(index_meeting(Self, meeting_id, db[meeting_id]))
           /\ boot' = [boot EXCEPT !.meetings = Tail(@), !.steps = @ + 1,
                                   !.calls = Append(@, meeting_id)]
    /\ UNCHANGED <<result, liveAdd, db, th, served>>

\* startup_event: db.close() after the loop; startup is complete and the
\* server starts to take requests.
StartupClose ==
    /\ boot.pc = "index"
    /\ boot.meetings = <<>>
    /\ boot' = Serving(boot.calls, boot.steps)
    /\ UNCHANGED <<index, meeting_notes, raised, result, liveAdd, db, th, served>>

StartNext ==
    \/ \E ord \in Orders : StartupQuery(ord)
    \/ StartupIndex
    \/ StartupClose
    \/ HandlerNext

StartSpec == StartInit /\ [][StartNext]_vars

\* ------------------------------------------------------------- the claims

\* No read is waiting to hand its result to the caller: the next call may be
\* any of the four.
BetweenCalls == result = NoResult

\* The ids a token is posted for.
PostedFor(word) == Postings(index, word)

\* C1: in every state reached by whole calls of index_meeting and
\* remove_meeting, repeated adds of one id included, every id in meeting_notes
\* is in the posting set of every token of its stored text.
IndexForward ==
    \A m \in DOMAIN meeting_notes :
        \A w \in Tokens(meeting_notes[m]) : w \in DOMAIN index /\ m \in index[w]

\* C1's case: an id was added twice and is stored with a text of two tokens,
\* while another id was removed again.
IndexForwardWitness ==
    /\ liveAdd
    /\ \E m \in DOMAIN meeting_notes : Cardinality(Tokens(meeting_notes[m])) = 2
    /\ DOMAIN meeting_notes # Ids

\* C2: as long as index_meeting was never called for an id that was in
\* meeting_notes, every posting m in index[w] has m in meeting_notes and w a
\* token of its stored text.
IndexReverse ==
    ~liveAdd =>
        \A w \in DOMAIN index : \A m \in index[w] :
            m \in DOMAIN meeting_notes /\ w \in Tokens(meeting_notes[m])

\* C2's case: a meeting was removed (its token's posting set is left empty)
\* and another is stored, with no add of a live id so far.
IndexReverseWitness ==
    /\ ~liveAdd
    /\ \E w \in DOMAIN index : index[w] = {}
    /\ \E w \in DOMAIN index : index[w] # {}
    /\ DOMAIN meeting_notes # {}

\* The ids in the list get_relevant_notes returned to ask_ai in thread t.
Returned(t) == {th[t].out[i].meeting_id : i \in DOMAIN th[t].out}

\* get_relevant_notes has returned to ask_ai in thread t.
HasReturned(t) ==
    /\ th[t].op = "ask"
    /\ th[t].pc = "a_db" \/ (th[t].pc = "done" /\ th[t].status = "200")

\* C3 as claimed: a get_relevant_notes call that runs while update_meeting
\* re-indexes a meeting never finds the meeting gone: when a query token is
\* in the old and the new text and the call read that token's posting set
\* during the update, the meeting is in what it returns.
ReindexIsAtomic ==
    \A t \in Threads : HasReturned(t) => th[t].missed \subseteq Returned(t)

\* C4 as claimed: a get_relevant_notes call never reads a posting set that
\* lacks a meeting whose text, stored in meeting_notes, has the token, while
\* another handler is inside index_meeting or remove_meeting of that meeting.
ReadsSeeWholeMutations ==
    \A t \in Threads : th[t].op = "ask" => ~th[t].sawPartial

\* Two indexers answer every query alike, the posting sets iterated in the
\* same order.
SameAnswers(a, b) ==
    \A q \in Queries, ord \in Orders :
        /\ search_keywords(a, q, ord) = search_keywords(b, q, ord)
        /\ \A limit \in Limits :
              get_relevant_notes(a, q, limit, ord) = get_relevant_notes(b, q, limit, ord)

AddThenRemove(m, notes) == remove_meeting(index_meeting(Self, m, notes), m)

Reindexed(m, old, new) ==
    index_meeting(remove_meeting(index_meeting(Self, m, old), m), m, new)

\* The ids search_keywords returns, as a set: the order of the list does not
\* decide which ids are in it (SearchIsUnion holds for every order).
Found(self, query) == Range(search_keywords(self, query, [i \in 1..MaxId |-> i]))

\* C6: after index_meeting(id, old), remove_meeting(id), index_meeting(id, new)
\* search_keywords does not return id for a token of old that is not in new,
\* returns it for every token of new, and meeting_notes[id] is new.
ReindexLeavesNoStale ==
    BetweenCalls => \A m \in Ids, old \in Notes, new \in Notes :
        \A after \in {Reindexed(m, old, new)} :
            /\ \A w \in Tokens(old) \ Tokens(new) : m \notin Found(after, w)
            /\ \A w \in Tokens(new) : m \in Found(after, w)
            /\ m \in DOMAIN after.meeting_notes
            /\ after.meeting_notes[m] = new

\* C6's case: a stored meeting is re-indexed with a text that drops a token
\* and brings a new one, and search_keywords returned it for the dropped one.
ReindexWitness ==
    \E m \in DOMAIN meeting_notes, new \in Notes :
        /\ Tokens(meeting_notes[m]) \ Tokens(new) # {}
        /\ Tokens(new) \ Tokens(meeting_notes[m]) # {}
        /\ \A w \in Tokens(meeting_notes[m]) : m \in Found(Self, w)
        /\ Reindexed(m, meeting_notes[m], new).index # index

\* C7: remove_meeting of an id that is not in meeting_notes does not raise and
\* leaves index and meeting_notes as they are; a second remove_meeting of any
\* id changes nothing the first left.
NoOpRemove ==
    BetweenCalls => \A m \in Ids :
        /\ m \notin DOMAIN meeting_notes =>
              LET after == remove_meeting(Self, m)
              IN  /\ ~after.raised
                  /\ after.index = index
                  /\ after.meeting_notes = meeting_notes
        /\ LET once == remove_meeting(Self, m)
           IN  remove_meeting(once, m) = once

\* C7's case: one id was removed and is absent (its posting set is empty),
\* another is stored.
NoOpRemoveWitness ==
    /\ \E m \in Ids : m \notin DOMAIN meeting_notes
    /\ \E m \in Ids : m \in DOMAIN meeting_notes
    /\ \E w \in DOMAIN index : index[w] = {}

NoDuplicates(s) == \A i, j \in DOMAIN s : i # j => s[i] # s[j]

\* C8: for a query with at least one token search_keywords returns, without
\* duplicates and without raising, exactly the ids posted for at least one
\* token of the query.
SearchIsUnion ==
    (result.op = "search" /\ _tokenize(result.query) # <<>>) =>
        /\ Range(result.out) =
              {m \in Ids : \E w \in Tokens(result.query) : m \in PostedFor(w)}
        /\ NoDuplicates(result.out)
        /\ ~raised

\* C8's case: "cat owl" returned two ids, none of them posted for both tokens.
SearchIsUnionWitness ==
    /\ result.op = "search"
    /\ result.query = QueryCatOwl
    /\ Len(result.out) = 2
    /\ \A m \in Ids : ~(\A w \in Tokens(QueryCatOwl) : m \in PostedFor(w))

\* C9 as claimed: the score get_relevant_notes reports for a document is the
\* number of distinct query tokens posted for it.
ScoreCountsDistinctTokens ==
    result.op = "ranked" =>
        \A i \in DOMAIN result.out :
            result.out[i].score =
                Cardinality({w \in Tokens(result.query) :
                                result.out[i].meeting_id \in PostedFor(w)})

NonIncreasing(out) ==
    \A i, j \in DOMAIN out : i < j => out[i].score >= out[j].score

\* C10: what get_relevant_notes returns is non-increasing in score, every
\* score is at least 1, no id occurs twice, and when the limit cuts nothing
\* off the ids are those search_keywords returns for the query.
RankedIsOrdered ==
    result.op = "ranked" =>
        LET ids == [i \in DOMAIN result.out |-> result.out[i].meeting_id]
            found == {m \in Ids : \E ord \in Orders :
                        m \in Range(search_keywords(Self, result.query, ord))}
        IN  /\ NonIncreasing(result.out)
            /\ \A i \in DOMAIN result.out : result.out[i].score >= 1
            /\ NoDuplicates(ids)
            /\ Range(ids) \subseteq found
            /\ result.limit >= Cardinality(found) => Range(ids) = found

\* C10's case: two documents were returned with different scores.
RankedIsOrderedWitness ==
    /\ result.op = "ranked"
    /\ Len(result.out) = 2
    /\ result.out[1].score > result.out[2].score

\* The ids posted for at least one token of the query.
Matching(query) == {m \in Ids : \E w \in Tokens(query) : m \in PostedFor(w)}

\* The number of keywords of the query, repeats counted, that m is posted for.
RECURSIVE Occurrences(_, _)
Occurrences(keywords, m) ==
    IF keywords = <<>> THEN 0
    ELSE (IF m \in PostedFor(Head(keywords)) THEN 1 ELSE 0)
         + Occurrences(Tail(keywords), m)

Min(a, b) == IF a < b THEN a ELSE b

\* C11: get_relevant_notes returns exactly min(limit, number of matching
\* documents) entries, every matching document left out scores no more than
\* any returned one, and limit = 0 returns the empty list.
LimitTruncates ==
    result.op = "ranked" =>
        LET ids == {result.out[i].meeting_id : i \in DOMAIN result.out}
        IN  /\ Len(result.out) = Min(result.limit, Cardinality(Matching(result.query)))
            /\ \A m \in Matching(result.query) \ ids : \A i \in DOMAIN result.out :
                  Occurrences(_tokenize(result.query), m) <= result.out[i].score
            /\ result.limit = 0 => result.out = <<>>

\* C11's case: two documents match, of different scores, and limit 1 returned
\* one of them.
LimitTruncatesWitness ==
    /\ result.op = "ranked"
    /\ result.limit = 1
    /\ Len(result.out) = 1
    /\ \E m \in Matching(result.query) :
          Occurrences(_tokenize(result.query), m) < result.out[1].score

\* C12 as claimed: the list get_relevant_notes returns is a function of the
\* postings, the stored texts, the query and the limit: it is the same for
\* every order in which the posting sets may be iterated.
TieBreakIsDeterministic ==
    BetweenCalls => \A q \in Queries, limit \in Limits : \A o1, o2 \in Orders :
        get_relevant_notes(Self, q, limit, o1) = get_relevant_notes(Self, q, limit, o2)

\* C13 as claimed: no call of get_relevant_notes raises, a call that iterates
\* a posting set while another handler's index_meeting or remove_meeting
\* changes the indexer included: ask_ai never ends in its except branch.
ReadsNeverRaise ==
    \A t \in Threads : IsReader(t) => th[t].status # "500"

\* The text meeting_notes.get hands out for an id that is not a key.
Fallback == <<>>

\* C14 as claimed: every entry get_relevant_notes returns to ask_ai carries a
\* text that was stored for its id by index_meeting, never the empty-string
\* fallback of meeting_notes.get (the handlers store no empty text).
ResultsCarryStoredText ==
    \A t \in Threads : IsReader(t) =>
        \A i \in DOMAIN th[t].out :
            /\ th[t].out[i].notes # Fallback
            /\ th[t].out[i].notes \in HandlerNotes

\* Queries without a token: the empty string, blanks only, and " a" (only
\* words of length <= 2).
QueryEmpty == <<>>
QueryBlank == <<" ", " ">>
EmptyQueries == {QueryEmpty, QueryBlank, QueryShort}

\* C15: for a query that tokenizes to no token, search_keywords and
\* get_relevant_notes return the empty list and do not raise, whatever the
\* index holds and whatever the limit.
EmptyQueryEmptyResult ==
    /\ \A q \in EmptyQueries : _tokenize(q) = <<>>
    /\ (result.op \in {"search", "ranked"} /\ result.query \in EmptyQueries) =>
          result.out = <<>> /\ ~raised
    /\ BetweenCalls => \A q \in EmptyQueries, ord \in Orders :
          /\ search_keywords(Self, q, ord) = <<>>
          /\ \A limit \in Limits : get_relevant_notes(Self, q, limit, ord) = <<>>

\* C15's case: get_relevant_notes was called with " a" and the default limit
\* while every id is stored and posted.
EmptyQueryWitness ==
    /\ result.op = "ranked"
    /\ result.query = QueryShort
    /\ result.limit = DefaultLimit
    /\ DOMAIN meeting_notes = Ids
    /\ \A m \in Ids : \E w \in DOMAIN index : m \in index[w]

\* A text with upper case, a digit, an underscore and a repeated word:
\* "A_1 b2, it CAT cat".
TextMixed == <<"A", "_", "1", " ", "b", "2", ",", " ", "i", "t", " ",
               "C", "A", "T", " ", "c", "a", "t">>

\* The texts the tokenizer is checked on.
TokenizerTexts == Notes \cup Queries \cup EmptyQueries \cup {TextMixed}

\* text[i..j] is a maximal run of word characters.
IsRun(text, i, j) ==
    /\ i <= j
    /\ \A k \in i..j : IsWordChar(text[k])
    /\ i = 1 \/ ~IsWordChar(text[i - 1])
    /\ j = Len(text) \/ ~IsWordChar(text[j + 1])

\* The runs of text that start at i or later, lowercased, those of length <= 2
\* left out, in order of appearance.
RECURSIVE RunsFrom(_, _)
RunsFrom(text, i) ==
    IF i > Len(text) THEN <<>>
    ELSE IF \E j \in i..Len(text) : IsRun(text, i, j)
         THEN LET j == CHOOSE j \in i..Len(text) : IsRun(text, i, j)
              IN  (IF j - i + 1 > 2 THEN <<Lower(SubSeq(text, i, j))>> ELSE <<>>)
                  \o RunsFrom(text, j + 1)
         ELSE RunsFrom(text, i + 1)

\* _tokenize returns the long runs of every text it is checked on.
TokenizerAgrees == \A text \in TokenizerTexts : _tokenize(text) = RunsFrom(text, 1)

\* C16: _tokenize returns the lowercased maximal word-character runs of the
\* text that are longer than 2, in order and with repeats, the empty sequence
\* when there is none, and no key of the index is of length <= 2.
TokenizerLengthFilter ==
    /\ TokenizerAgrees
    /\ \A text \in {NoteShort} \cup EmptyQueries : _tokenize(text) = <<>>
    /\ \A w \in DOMAIN index : Len(w) > 2

\* C16's case: "cat to owl cat" is indexed (its tokens are cat, owl, cat: a
\* short word dropped, a repeat kept) beside "a to", which posts nothing.
TokenizerWitness ==
    /\ Len(_tokenize(NoteCatCat)) = 3
    /\ \E m \in DOMAIN meeting_notes : meeting_notes[m] = NoteCatCat
    /\ \E m \in DOMAIN meeting_notes : meeting_notes[m] = NoteShort
    /\ DOMAIN index # {}

\* get_relevant_notes has returned the empty list to ask_ai in thread t: no
\* keyword is left to read and nothing was scored.
ReturnedEmpty(t) ==
    /\ IsReader(t)
    /\ th[t].keywords = <<>>
    /\ th[t].scores = <<>>
    /\ th[t].pc # "a_kw"

\* C17: when get_relevant_notes returns no entry, ask_ai responds with status
\* 200, the answer that it found no relevant meeting and an empty
\* relevant_meetings list, and does not call the agent's answer_question.
EmptyResultIsNormal ==
    \A t \in Threads : ReturnedEmpty(t) =>
        /\ th[t].pc \in {"a_notes", "done"}
        /\ th[t].pc = "done" => th[t].status = "200"
        /\ th[t].out = <<>>
        /\ th[t].meetings = <<>>
        /\ th[t].looked = 0
        /\ ~th[t].answered

\* C17's case: ask_ai has ended a question that has the token dog on an empty
\* result, and dog is a key of the index whose posting set a delete emptied.
EmptyResultWitness ==
    \E t \in Threads :
        /\ ReturnedEmpty(t)
        /\ th[t].pc = "done"
        /\ th[t].query = QueryDog
        /\ QueryDog \in DOMAIN index
        /\ index[QueryDog] = {}
        /\ DOMAIN db = {}

AddedTwice(m, t1, t2) == index_meeting(index_meeting(Self, m, t1), m, t2)

\* C18: after index_meeting(id, t1) and index_meeting(id, t2) with no
\* remove_meeting between them, meeting_notes[id] is t2 and id is still posted
\* for every token of t1 that t2 lacks; remove_meeting(id) then un-posts only
\* t2's tokens, so id is absent from meeting_notes but still posted, and
\* search_keywords returns it, for those tokens of t1.
DoubleAddLeavesStale ==
    BetweenCalls => \A m \in Ids, t1 \in Notes, t2 \in Notes :
        \A twice \in {AddedTwice(m, t1, t2)} :
            \A after \in {remove_meeting(twice, m)} :
                /\ twice.meeting_notes[m] = t2
                /\ m \notin DOMAIN after.meeting_notes
                /\ \A w \in Tokens(t2) : m \notin Postings(after.index, w)
                /\ \A w \in Tokens(t1) \ Tokens(t2) :
                      /\ m \in Postings(twice.index, w)
                      /\ m \in Postings(after.index, w)
                      /\ m \in Found(after, w)

\* C18's case: search_keywords has returned an id that is not in
\* meeting_notes, left posted by two adds and a remove.
DoubleAddWitness ==
    /\ liveAdd
    /\ result.op = "search"
    /\ \E m \in Range(result.out) : m \notin DOMAIN meeting_notes

\* Threads t and u have both finished an update of one meeting, each having
\* indexed a different text, and no other handler ran beside them.
BothUpdated(t, u) ==
    /\ t # u
    /\ \A x \in {t, u} :
          /\ th[x].op = "update" /\ th[x].pc = "done" /\ th[x].status = "200"
          /\ th[x].base
    /\ th[t].id = th[u].id
    /\ th[t].notes # th[u].notes
    /\ \A x \in Threads \ {t, u} : th[x] = Idle

\* C19 as claimed: once two update_meeting handlers of one meeting with
\* different notes have both finished, the meeting is posted for exactly the
\* tokens of the text left in meeting_notes, in whatever way their steps
\* interleaved.
WritersAreSerialized ==
    \A t, u \in Threads : BothUpdated(t, u) =>
        /\ th[t].id \in DOMAIN meeting_notes
        /\ InStep(th[t].id)

\* No handler is in progress.
Quiescent == \A t \in Threads : th[t].pc \in {"idle", "done"}

\* C20 as claimed: in every state with no handler in progress, the ids in
\* meeting_notes are the ids of the meetings in the database and each stored
\* text is that meeting's raw_notes.
IndexTracksStore ==
    Quiescent =>
        /\ DOMAIN meeting_notes = DOMAIN db
        /\ \A m \in DOMAIN db : meeting_notes[m] = db[m]

\* C21: startup_event starts on an empty indexer, no request handler has
\* started before it completes, and when it completes it has called
\* index_meeting once for every meeting of the table, meeting_notes holds the
\* table's ids and texts, and every id is posted for exactly the tokens of
\* its text.
StartupPopulates ==
    /\ boot.pc = "query" => index = <<>> /\ meeting_notes = <<>>
    /\ boot.pc # "serving" => served = 0 /\ \A t \in Threads : th[t] = Idle
    /\ (boot.steps > 0 /\ boot.pc = "serving" /\ served = 0) =>
          /\ NoDuplicates(boot.calls)
          /\ Range(boot.calls) = DOMAIN db
          /\ meeting_notes = db
          /\ \A m \in Ids : InStep(m)

\* C21's case: startup has completed on a table that holds every id, with
\* different texts, and no request has been taken yet.
StartupWitness ==
    /\ boot.steps > 0 /\ boot.pc = "serving" /\ served = 0
    /\ DOMAIN db = Ids
    /\ \E m, n \in Ids : db[m] # db[n]
    /\ Len(boot.calls) = MaxId

\* "cat to owl": the text "cat to owl cat" with its repeated token once.
NoteCatOwl == <<"c", "a", "t", " ", "t", "o", " ", "o", "w", "l">>

\* The ids and scores of a list get_relevant_notes returns, without the texts.
Scores(out) ==
    [i \in DOMAIN out |-> [meeting_id |-> out[i].meeting_id, score |-> out[i].score]]

\* C22: index_meeting of "cat to owl cat" leaves the same posting sets as
\* index_meeting of "cat to owl", get_relevant_notes gives the same ids and
\* scores after either, and a score it reports is the number of the query's
\* keywords the id is posted for, whatever the stored text repeats.
PresenceIsBinary ==
    /\ BetweenCalls => \A m \in Ids :
          \A a \in {index_meeting(Self, m, NoteCatCat)} :
              \A b \in {index_meeting(Self, m, NoteCatOwl)} :
                  /\ a.index = b.index
                  /\ \A q \in Queries, limit \in Limits, ord \in Orders :
                        Scores(get_relevant_notes(a, q, limit, ord))
                            = Scores(get_relevant_notes(b, q, limit, ord))
    /\ result.op = "ranked" =>
          \A i \in DOMAIN result.out :
              result.out[i].score =
                  Occurrences(_tokenize(result.query), result.out[i].meeting_id)

\* C22's case: "cat to owl cat" is stored and get_relevant_notes has scored it
\* 2 for "cat owl".
PresenceWitness ==
    /\ result.op = "ranked"
    /\ result.query = QueryCatOwl
    /\ \E i \in DOMAIN result.out :
          /\ result.out[i].score = 2
          /\ result.out[i].notes = NoteCatCat

\* A read has just returned: search_keywords or get_relevant_notes.
ReadStep == result = NoResult /\ result' # NoResult

\* What the read of result returns when it is repeated with the posting sets
\* iterated in the order ord.
Repeated(ord) ==
    IF result.op = "search" THEN search_keywords(Self, result.query, ord)
    ELSE get_relevant_notes(Self, result.query, result.limit, ord)

\* The scores of a list get_relevant_notes returns, in order.
ScoreList(out) == [i \in DOMAIN out |-> out[i].score]

\* The read of result, repeated in the state it left, returns the same list
\* when the posting sets are iterated in the same order and, whatever the
\* order, the same ids (search_keywords) and the same scores
\* (get_relevant_notes).
RepeatAgrees ==
    result # NoResult =>
        /\ \E ord \in Orders : Repeated(ord) = result.out
        /\ \A ord \in Orders :
              IF result.op = "search"
              THEN Range(Repeated(ord)) = Range(result.out)
              ELSE ScoreList(Repeated(ord)) = ScoreList(result.out)

\* C23: search_keywords and get_relevant_notes leave index, its key set
\* included, and meeting_notes as they are and do not raise, and the same
\* read repeated in the same state returns the same result.
ReadsChangeNothing ==
    /\ [][ReadStep => /\ index' = index
                      /\ DOMAIN index' = DOMAIN index
                      /\ meeting_notes' = meeting_notes
                      /\ ~raised']_vars
    /\ []RepeatAgrees

\* C23's case: get_relevant_notes has returned for "Cat cat, emu", whose token
\* emu is no key of the index, while cat is one with a posting.
ReadsWitness ==
    /\ result.op = "ranked"
    /\ result.query = QueryCatCatEmu
    /\ result.out # <<>>
    /\ \E w \in Tokens(QueryCatCatEmu) : w \notin DOMAIN index
    /\ \E w \in Tokens(QueryCatCatEmu) : w \in DOMAIN index

\* Thread t takes an update or a delete request in this step.
TakesWrite(t) ==
    th[t] = Idle /\ th'[t] # Idle /\ th'[t].op \in {"update", "delete"}

\* C24: update_meeting and delete_meeting of an id that is not in the table
\* end with 404 at their query, in a step that leaves index and meeting_notes
\* as they are, and never start a call of the indexer; for an id in the table
\* the query does not end with 404.
RejectedWritesTouchNothing ==
    /\ [][\A t \in Threads : TakesWrite(t) =>
            IF th'[t].id \in DOMAIN db
            THEN th'[t].pc # "done" /\ th'[t].status # "404"
            ELSE /\ th'[t].pc = "done" /\ th'[t].status = "404"
                 /\ index' = index
                 /\ meeting_notes' = meeting_notes]_vars
    /\ [](\A t \in Threads : (IsWriter(t) /\ th[t].status = "404") =>
            th[t].pc = "done" /\ th[t].words = <<>>)

\* C24's case: a delete of an id that is not in the table has ended with 404
\* while a meeting is stored and posted.
RejectedWriteWitness ==
    \E t \in Threads :
        /\ th[t].op = "delete" /\ th[t].status = "404"
        /\ th[t].id \notin DOMAIN db
        /\ DOMAIN meeting_notes # {}
        /\ \E w \in DOMAIN index : index[w] # {}

\* More scored meetings than ask_ai asks for, every second one scored higher.
ManyScored ==
    [i \in 1..(DefaultLimit + 1) |-> [meeting_id |-> i, score |-> 1 + (i % 2)]]

\* s is full with some items left out, the rest in the order of full.
RECURSIVE IsSubSeqOf(_, _)
IsSubSeqOf(s, full) ==
    IF s = <<>> THEN TRUE
    ELSE IF full = <<>> THEN FALSE
    ELSE IF Head(s) = Head(full) THEN IsSubSeqOf(Tail(s), Tail(full))
    ELSE IsSubSeqOf(s, Tail(full))

\* The ids get_relevant_notes returned to ask_ai in thread t, in rank order,
\* as far as ask_ai has looked them up.
LookedUp(t) == [i \in 1..th[t].looked |-> th[t].out[i].meeting_id]

\* ask_ai in thread t looks the next id up in this step.
LookupStep(t) ==
    /\ IsReader(t) /\ th[t].pc = "a_db"
    /\ th'[t].op = "ask" /\ th'[t].looked = th[t].looked + 1

\* C25: the list of relevant meetings ask_ai builds has at most 5 entries,
\* keeps the rank order of get_relevant_notes, takes an id when its meeting is
\* in the table at the lookup and drops it otherwise, and a dropped id is no
\* error: once the lookups have begun ask_ai ends with status 200.
AskCitesExisting ==
    /\ [][\A t \in Threads : LookupStep(t) =>
            LET mid == th[t].out[th[t].looked + 1].meeting_id
            IN  /\ th'[t].meetings = IF mid \in DOMAIN db
                                     THEN Append(th[t].meetings, mid)
                                     ELSE th[t].meetings
                /\ th'[t].pc = "a_db"]_vars
    /\ [](\A t \in Threads : IsReader(t) =>
            /\ Len(th[t].out) <= DefaultLimit
            /\ Len(th[t].meetings) <= DefaultLimit
            /\ IsSubSeqOf(th[t].meetings, LookedUp(t))
            /\ (th[t].pc = "a_db" \/ th[t].looked > 0) => th[t].status \in {"", "200"}
            /\ th[t].answered => th[t].pc = "done" /\ th[t].status = "200")
    /\ [](Len(Truncate(SortedByScore(ManyScored), DefaultLimit)) = DefaultLimit)

\* C25's case: ask_ai has answered after get_relevant_notes returned an id
\* whose meeting was gone from the table at the lookup, and cites no meeting.
AskCitesWitness ==
    \E t \in Threads :
        /\ IsReader(t) /\ th[t].answered
        /\ Len(th[t].out) = 1
        /\ th[t].meetings = <<>>

=============================================================================
